---- MODULE Spec2Model ----
(***************************************************************************)
(* Storage gateways of the face metadata repository:                       *)
(*   PickleCRUD            (api/gateway.py)          faces,  pickle file   *)
(*   people handler        (api/gateway/people.py)   people, pickle file   *)
(*   FaceDataHandler       (api/gateway/duck.py)     faces,  DuckDB table  *)
(*   persons handler       (api/gateway/persons.py)  people, DuckDB table  *)
(*   DuckDbGateway         (api/gateway/person.py)   persons, DuckDB table *)
(* One gateway class is exercised per behaviour (variable handler); every  *)
(* call is recorded in the variable last (operation, key, outcome). The    *)
(* variable calls holds the calls that threads have in progress over the   *)
(* pickle files, step by step.                                             *)
(***************************************************************************)
EXTENDS Integers, Sequences, FiniteSets, TLC

VARIABLES handler, constructed, faces_pkl, people_pkl, face_data, people, conn,
          persons_key, persons, last, created, calls

vars ==
    <<handler, constructed, faces_pkl, people_pkl, face_data, people, conn, persons_key,
      persons, last, created, calls>>

\* The state of a DuckDbGateway and of the table persons it is over
gateway_vars == <<conn, persons_key, persons>>

(***************************************************************************)
(* Bounds and sample values                                                *)
(***************************************************************************)
NumFaceIds == 2
MaxDocs == 1
MaxPersonId == 2
MaxPersonRows == 2
MaxPage == 3
MaxPageLength == 2

FaceIds == {"f" \o ToString(i) : i \in 1..NumFaceIds}
GroupIds == {7}
\* The significand of a single-precision number, the type of a FLOAT column
FloatMantissaBits == 24

RECURSIVE BitLength(_)
BitLength(n) == IF n = 0 THEN 0 ELSE 1 + BitLength(n \div 2)

RECURSIVE Pow2(_)
Pow2(n) == IF n = 0 THEN 1 ELSE 2 * Pow2(n - 1)

\* A double stored in a FLOAT column: rounded to the nearest single-precision
\* number (24-bit significand, ties to even). v is a natural number.
ToFloat32(v) ==
    IF BitLength(v) <= FloatMantissaBits THEN v
    ELSE LET unit == Pow2(BitLength(v) - FloatMantissaBits)
             q == v \div unit
             r == v % unit
         IN IF 2 * r > unit \/ (2 * r = unit /\ q % 2 = 1)
            THEN (q + 1) * unit ELSE q * unit

\* Python floats (doubles) that occur as bounding_box.x; both are integers, which
\* a double holds exactly: Exact is a single-precision number too, Inexact
\* (2^24 + 1) is not.
Exact == Pow2(FloatMantissaBits) - 1
Inexact == Pow2(FloatMantissaBits) + 1

PersonNames == {"Jane_Doe", "John_Doe"}

\* Python None as a return value or a record-valued field.
None == [none |-> TRUE]
\* An optional argument that is given
Some(v) == [v |-> v]
\* Python None in the Optional[int] field group_id: an integer that is no id.
NoGroup == 0 - 1

(***************************************************************************)
(* Record types (api/models.py)                                            *)
(***************************************************************************)
BoundingBox(x) == [x |-> x, y |-> 2, width |-> 4, height |-> 4]

Attributes == [race |-> "unknown", race_confidence |-> 1]

\* A path is the sequence of its components: /srv/api/data/images/<directory>/001.jpg
PathIn(directory) == <<"srv", "api", "data", "images", directory, "001.jpg">>

ImagePath == PathIn("Jane_Doe")

\* image_path.split('api')[1]: what follows the first component api, up to the next
SplitApi1(image_path) ==
    LET first == CHOOSE i \in DOMAIN image_path :
                   image_path[i] = "api" /\ \A j \in 1..(i - 1) : image_path[j] # "api"
        rest == SubSeq(image_path, first + 1, Len(image_path))
        stops == {i \in DOMAIN rest : rest[i] = "api"}
    IN IF stops = {} THEN rest
       ELSE SubSeq(rest, 1, (CHOOSE i \in stops : \A j \in stops : i <= j) - 1)

\* image_path.split('api') has an item [1]: IndexError when the path holds no api
split_ok(image_path) == \E i \in DOMAIN image_path : image_path[i] = "api"

\* The url validator: host, port and image_path.split('api')[1].
generate_url(image_path) ==
    [host |-> "localhost", port |-> "8000", path |-> SplitApi1(image_path)]

\* os.path.dirname and os.path.basename
dirname(path) == SubSeq(path, 1, Len(path) - 1)
basename(path) == IF path = <<>> THEN "" ELSE path[Len(path)]

FaceData(fid, gid, x) ==
    [face_id |-> fid,
     url |-> generate_url(ImagePath),
     face_path |-> "/srv/api/data/faces/001.jpg",
     image_path |-> ImagePath,
     bounding_box |-> BoundingBox(x),
     face_confidence |-> 1,
     attributes |-> Attributes,
     group_id |-> gid,
     embedding |-> <<1, 2>>]

\* The records callers pass
FaceRecords ==
    {FaceData(fid, gid, Exact) : fid \in FaceIds, gid \in GroupIds \cup {NoGroup}}
        \cup {FaceData("f1", NoGroup, Inexact)}

PersonData(pid, name) == [person_id |-> pid, person_name |-> name]

(***************************************************************************)
(* The pickle file: missing, or the pickled object. A dict is a function   *)
(* from its keys, a list a sequence.                                       *)
(***************************************************************************)
Missing == [kind |-> "missing", d |-> <<>>]
Dict(f) == [kind |-> "dict", d |-> f]
List(s) == [kind |-> "list", d |-> s]
EmptyDict == Dict(<<>>)

\* os.path.exists(path)
exists(file) == file.kind # "missing"

\* isinstance(data, dict)
isinstance_dict(data) == data.kind = "dict"

\* key in data, for a dict (its keys) and for a list (its items)
Contains(data, key) ==
    IF data.kind = "dict" THEN key \in DOMAIN data.d
    ELSE \E i \in DOMAIN data.d : data.d[i] = key

\* data[key] = value on a dict
SetItem(f, key, value) == [k \in DOMAIN f \cup {key} |-> IF k = key THEN value ELSE f[k]]

\* del data[key] on a dict
DelItem(f, key) == [k \in DOMAIN f \ {key} |-> f[k]]

\* An outcome of a call: how it ended, what it returned, the store it left.
Return(ret, store) == [result |-> "ok", ret |-> ret, store |-> store]
Raise(exc, store) == [result |-> exc, ret |-> None, store |-> store]

(***************************************************************************)
(* PickleCRUD (api/gateway.py)                                             *)
(***************************************************************************)
\* A constructor that writes {} whether or not the file exists
initialize_truncate(file) == EmptyDict

\* _initialize_pickle_file: write {} when the file does not exist
initialize_pickle_file(file) == IF ~exists(file) THEN EmptyDict ELSE file

\* A create that does not look for the key before it assigns
create_overwrite(file, key, value) ==
    IF ~exists(file) THEN Raise("FileNotFoundError", file)
    ELSE IF ~isinstance_dict(file) THEN Raise("TypeError", file)
    ELSE Return(None, Dict(SetItem(file.d, key, value)))

create(file, key, value) ==
    IF ~exists(file) THEN Raise("FileNotFoundError", file)
    ELSE IF Contains(file, key) THEN Raise("KeyError", file)
    ELSE IF ~isinstance_dict(file) THEN Raise("TypeError", file)
    ELSE Return(None, Dict(SetItem(file.d, key, value)))

\* A read that subscripts the data without looking for the key
read_subscript(file, key) ==
    IF ~exists(file) THEN Raise("FileNotFoundError", file)
    ELSE IF ~isinstance_dict(file) THEN Raise("TypeError", file)
    ELSE IF key \in DOMAIN file.d THEN Return(file.d[key], file)
    ELSE Raise("KeyError", file)

read(file, key) ==
    IF ~exists(file) THEN Raise("FileNotFoundError", file)
    ELSE IF Contains(file, key)
         THEN IF isinstance_dict(file) THEN Return(file.d[key], file)
              ELSE Raise("TypeError", file)
    ELSE Return(None, file)

\* A read_all that returns what the file holds without the isinstance check
read_all_unchecked(file) ==
    IF ~exists(file) THEN Raise("FileNotFoundError", file)
    ELSE Return(file, file)

read_all(file) ==
    IF ~exists(file) THEN Raise("FileNotFoundError", file)
    ELSE IF ~isinstance_dict(file) THEN Raise("ValueError", file)
    ELSE Return(file, file)

\* An update that assigns without looking for the key
update_upsert(file, key, value) ==
    IF ~exists(file) THEN Raise("FileNotFoundError", file)
    ELSE IF ~isinstance_dict(file) THEN Raise("TypeError", file)
    ELSE Return(None, Dict(SetItem(file.d, key, value)))

update(file, key, value) ==
    IF ~exists(file) THEN Raise("FileNotFoundError", file)
    ELSE IF ~Contains(file, key) THEN Raise("KeyError", file)
    ELSE IF ~isinstance_dict(file) THEN Raise("TypeError", file)
    ELSE Return(None, Dict(SetItem(file.d, key, value)))

\* A delete that writes an empty mapping back
delete_clear(file, key) ==
    IF ~exists(file) THEN Raise("FileNotFoundError", file)
    ELSE IF ~Contains(file, key) THEN Raise("KeyError", file)
    ELSE IF ~isinstance_dict(file) THEN Raise("TypeError", file)
    ELSE Return(None, EmptyDict)

\* A delete that does not write the data back
delete_no_write(file, key) ==
    IF ~exists(file) THEN Raise("FileNotFoundError", file)
    ELSE IF ~Contains(file, key) THEN Raise("KeyError", file)
    ELSE IF ~isinstance_dict(file) THEN Raise("TypeError", file)
    ELSE Return(None, file)

delete(file, key) ==
    IF ~exists(file) THEN Raise("FileNotFoundError", file)
    ELSE IF ~Contains(file, key) THEN Raise("KeyError", file)
    ELSE IF ~isinstance_dict(file) THEN Raise("TypeError", file)
    ELSE Return(None, Dict(DelItem(file.d, key)))

(***************************************************************************)
(* PersonDataHandler over a pickle file (api/gateway/people.py)            *)
(***************************************************************************)
people_initialize_pickle_file(file) == IF ~exists(file) THEN EmptyDict ELSE file

Max(S) == CHOOSE m \in S : \A n \in S : n <= m

\* A next key that counts the entries
people_get_next_key_len(data) == Cardinality(DOMAIN data.d)

\* get_next_key: 0 when the data is empty (not data), else the largest key plus one
people_get_next_key(data) ==
    IF DOMAIN data.d = {} THEN 0
    ELSE Max(DOMAIN data.d) + 1

\* create(value): key = get_next_key(); data[key] = PersonData(key, value).
\* On a list: an empty one gives key 0 and data[0] = ... raises IndexError, another
\* one has no keys() (AttributeError).
people_create(file, value) ==
    IF ~exists(file) THEN Raise("FileNotFoundError", file)
    ELSE IF ~isinstance_dict(file)
         THEN IF DOMAIN file.d = {} THEN Raise("IndexError", file)
              ELSE Raise("AttributeError", file)
    ELSE LET key == people_get_next_key(file) IN
         Return(PersonData(key, value), Dict(SetItem(file.d, key, PersonData(key, value))))

\* The lists this model puts in the people file are empty, so that key in data is
\* false on them and data[key] is evaluated on a dict only.
people_read(file, key) ==
    IF ~exists(file) THEN Raise("FileNotFoundError", file)
    ELSE IF Contains(file, key) THEN Return(file.d[key], file)
    ELSE Return(None, file)

people_read_all(file) ==
    IF ~exists(file) THEN Raise("FileNotFoundError", file)
    ELSE IF ~isinstance_dict(file) THEN Raise("ValueError", file)
    ELSE Return(file, file)

people_update(file, key, value) ==
    IF ~exists(file) THEN Raise("FileNotFoundError", file)
    ELSE IF ~Contains(file, key) THEN Raise("KeyError", file)
    ELSE Return(None, Dict(SetItem(file.d, key, value)))

\* A delete that passes over a key the data does not hold
people_delete_silent(file, key) ==
    IF ~exists(file) THEN Raise("FileNotFoundError", file)
    ELSE IF ~Contains(file, key) THEN Return(None, file)
    ELSE Return(None, Dict(DelItem(file.d, key)))

people_delete(file, key) ==
    IF ~exists(file) THEN Raise("FileNotFoundError", file)
    ELSE IF ~Contains(file, key) THEN Raise("KeyError", file)
    ELSE Return(None, Dict(DelItem(file.d, key)))

\* f.readline().strip() for the i-th line read: "" past the end of the file
readline(names, i) == IF i \in DOMAIN names THEN names[i] ELSE ""

RECURSIVE generate_loop(_, _, _, _)
generate_loop(f, ids, names, i) ==
    IF i > Len(ids) THEN f
    ELSE generate_loop(SetItem(f, ids[i], PersonData(ids[i], readline(names, i))), ids, names, i + 1)

generate_people_data(file, ids, names) ==
    IF ~exists(file) THEN Raise("FileNotFoundError", file)
    ELSE IF ~isinstance_dict(file)
         THEN IF ids = <<>> THEN Return(None, file) ELSE Raise("IndexError", file)
    ELSE Return(None, Dict(generate_loop(file.d, ids, names, 1)))

(***************************************************************************)
(* FaceDataHandler over the DuckDB table face_data (api/gateway/duck.py).  *)
(* A table is the set of its rows.                                         *)
(***************************************************************************)
\* json.dumps / json.loads: the text of a value, told apart from the value
json_dumps(v) == [json |-> v]
json_loads(text) == text.json

\* The row create() binds to INSERT OR REPLACE INTO face_data VALUES (...)
face_row(fd) ==
    [face_id |-> fd.face_id,
     face_path |-> fd.face_path,
     image_path |-> fd.image_path,
     bounding_box_x |-> ToFloat32(fd.bounding_box.x),
     bounding_box_y |-> ToFloat32(fd.bounding_box.y),
     bounding_box_width |-> ToFloat32(fd.bounding_box.width),
     bounding_box_height |-> ToFloat32(fd.bounding_box.height),
     face_confidence |-> ToFloat32(fd.face_confidence),
     attributes_race |-> fd.attributes.race,
     attributes_race_confidence |-> ToFloat32(fd.attributes.race_confidence),
     group_id |-> fd.group_id,
     embedding |-> json_dumps(fd.embedding)]

\* INSERT OR REPLACE on a table whose primary key is face_id
insert_or_replace(rows, row) == {r \in rows : r.face_id # row.face_id} \cup {row}

convert_row_to_facedata(row) ==
    [face_id |-> row.face_id,
     url |-> generate_url(row.image_path),
     face_path |-> row.face_path,
     image_path |-> row.image_path,
     bounding_box |-> [x |-> row.bounding_box_x, y |-> row.bounding_box_y,
                       width |-> row.bounding_box_width, height |-> row.bounding_box_height],
     face_confidence |-> row.face_confidence,
     attributes |-> [race |-> row.attributes_race,
                     race_confidence |-> row.attributes_race_confidence],
     group_id |-> row.group_id,
     embedding |-> json_loads(row.embedding)]

\* A create by plain INSERT: the primary key rejects a face_id that has a row
duck_create_insert(rows, fd) ==
    IF \E r \in rows : r.face_id = fd.face_id THEN Raise("ValueError", rows)
    ELSE Return(None, rows \cup {face_row(fd)})

\* INSERT OR REPLACE INTO face_data
duck_create(rows, fd) == Return(None, insert_or_replace(rows, face_row(fd)))

\* SELECT * FROM face_data WHERE face_id = ? ... fetchone()
duck_read(rows, face_id) ==
    LET result == {r \in rows : r.face_id = face_id} IN
    IF result # {} THEN Return(convert_row_to_facedata(CHOOSE r \in result : TRUE), rows)
    ELSE Return(None, rows)

\* read_all: the records of all rows (their order is the table's)
duck_read_all(rows) == Return([records |-> {convert_row_to_facedata(r) : r \in rows}], rows)

\* update binds face_data.embedding, a Python list, to the BLOB column embedding:
\* DuckDB has no cast from a list to BLOB, so the statement fails on every row it
\* matches (ValueError); with no matching row the driver either fails the same
\* way or reports success (raised says which). No row changes in any case.
duck_update(rows, face_id, fd, raised) ==
    IF raised \/ \E r \in rows : r.face_id = face_id THEN Raise("ValueError", rows)
    ELSE Return(None, rows)

\* A delete that looks at the number of rows it removed
duck_delete_checked(rows, face_id) ==
    IF \A r \in rows : r.face_id # face_id THEN Raise("ValueError", rows)
    ELSE Return(None, {r \in rows : r.face_id # face_id})

\* DELETE FROM face_data WHERE face_id = ?
duck_delete(rows, face_id) == Return(None, {r \in rows : r.face_id # face_id})

(***************************************************************************)
(* PersonDataHandler over the DuckDB table people (api/gateway/persons.py) *)
(***************************************************************************)
persons_create(rows, person_id, name, face_ids) ==
    IF \E r \in rows : r.id = person_id THEN Raise("ValueError", rows)
    ELSE Return(None, rows \cup {[id |-> person_id, name |-> name,
                                  face_ids |-> json_dumps(face_ids)]})

persons_read(rows, person_id) ==
    LET result == {r \in rows : r.id = person_id} IN
    IF result # {}
    THEN LET row == CHOOSE r \in result : TRUE IN
         Return([id |-> row.id, name |-> row.name, face_ids |-> json_loads(row.face_ids)], rows)
    ELSE Return(None, rows)

persons_read_all(rows) ==
    Return([records |-> {[id |-> r.id, name |-> r.name, face_ids |-> json_loads(r.face_ids)]
                         : r \in rows}], rows)

\* An update that issues its UPDATE without reading the row first
persons_update_unread(rows, person_id, name, face_ids) ==
    Return(None, {IF r.id = person_id
                  THEN [id |-> r.id,
                        name |-> IF name # None THEN name.v ELSE r.name,
                        face_ids |-> IF face_ids # None THEN json_dumps(face_ids.v)
                                     ELSE r.face_ids]
                  ELSE r : r \in rows})

\* update(person_id, name, face_ids): an argument is None or Some(v); None keeps
\* the column
persons_update(rows, person_id, name, face_ids) ==
    LET existing_record == persons_read(rows, person_id).ret IN
    IF existing_record = None THEN Raise("ValueError", rows)
    ELSE LET updated_name == IF name # None THEN name.v ELSE existing_record.name
             updated_face_ids == IF face_ids # None THEN face_ids.v
                                 ELSE existing_record.face_ids
         IN Return(None, {IF r.id = person_id
                          THEN [id |-> r.id, name |-> updated_name,
                                face_ids |-> json_dumps(updated_face_ids)]
                          ELSE r : r \in rows})

persons_delete(rows, person_id) == Return(None, {r \in rows : r.id # person_id})

(***************************************************************************)
(* DuckDbGateway over the table persons (api/gateway/person.py). The class *)
(* does not create the table: persons_key names the column its schema      *)
(* declares a key, "" when it declares none. The table is the sequence of  *)
(* its rows, which without a key may repeat. Of the thirteen columns the   *)
(* model keeps face_id, person_id and person_tag.                          *)
(***************************************************************************)
PersonColumns == {"face_id", "person_id", "person_tag"}

\* A connection check that also rejects a connection that is not open
execute_open_only(c) ==
    IF c # "open" THEN "RuntimeError"
    ELSE "ok"

\* conn.execute of a statement: _ensure_connection raises RuntimeError while conn
\* is None; a connection __exit__ closed raises ConnectionException
execute(c) ==
    IF c = "None" THEN "RuntimeError"
    ELSE IF c = "closed" THEN "ConnectionException"
    ELSE "ok"

\* the rows of a table with person_id = ?
Matching(rows, person_id) == {i \in DOMAIN rows : rows[i].person_id = person_id}

\* INSERT INTO persons (...) VALUES (...)
create_person(c, key, rows, person_data) ==
    IF execute(c) # "ok" THEN Raise(execute(c), rows)
    ELSE IF key # "" /\ \E i \in DOMAIN rows : rows[i][key] = person_data[key]
         THEN Raise("ConstraintException", rows)
    ELSE Return(None, Append(rows, person_data))

\* SELECT * FROM persons WHERE person_id = ? ... fetchone(): pick is the row the
\* scan yields first
get_person(c, rows, person_id, pick) ==
    IF execute(c) # "ok" THEN Raise(execute(c), rows)
    ELSE IF pick \in Matching(rows, person_id) THEN Return(rows[pick], rows)
    ELSE Return(None, rows)

get_all_persons(c, rows) ==
    IF execute(c) # "ok" THEN Raise(execute(c), rows)
    ELSE Return([records |-> rows], rows)

\* UPDATE persons SET <key = ?, ...> WHERE person_id = ?: with no field to set the
\* statement does not parse
update_person(c, rows, person_id, updates) ==
    IF execute(c) # "ok" THEN Raise(execute(c), rows)
    ELSE IF DOMAIN updates = {} THEN Raise("ParserException", rows)
    ELSE Return(None, [i \in DOMAIN rows |->
                         IF rows[i].person_id = person_id
                         THEN [col \in DOMAIN rows[i] |->
                                 IF col \in DOMAIN updates THEN updates[col]
                                 ELSE rows[i][col]]
                         ELSE rows[i]])

\* DELETE FROM persons WHERE person_id = ?
delete_person(c, rows, person_id) ==
    IF execute(c) # "ok" THEN Raise(execute(c), rows)
    ELSE Return(None, SelectSeq(rows, LAMBDA r : r.person_id # person_id))

(***************************************************************************)
(* JSON documents of the metadata folder. A parsed document is a function  *)
(* from the keys it holds; Unparsable is a file json.load rejects.         *)
(***************************************************************************)
Unparsable == [unparsable |-> TRUE]

JsonDoc(fid, gid, x) ==
    [face_id |-> fid,
     face_path |-> "/srv/api/data/faces/001.jpg",
     image_path |-> ImagePath,
     bounding_box |-> BoundingBox(x),
     face_confidence |-> 1,
     attributes |-> Attributes,
     group_id |-> gid,
     embedding |-> <<1, 2>>]

Without(doc, key) == [k \in DOMAIN doc \ {key} |-> doc[k]]

ValidDocs ==
    {JsonDoc(fid, gid, Exact) : fid \in FaceIds, gid \in GroupIds \cup {NoGroup}}
        \cup {JsonDoc("f1", NoGroup, Inexact)}

Docs ==
    ValidDocs \cup {Unparsable,
                    Without(JsonDoc("f1", NoGroup, Exact), "face_id"),
                    Without(JsonDoc("f1", NoGroup, Exact), "bounding_box")}

\* The folders: the documents of a folder in os.listdir order
Folders == UNION {[1..n -> Docs] : n \in 0..MaxDocs}

\* _load_json raises on a file that does not parse
load_json_ok(doc) == doc # Unparsable

\* json_data.get("face_id")
get_face_id(json_data) == IF "face_id" \in DOMAIN json_data THEN json_data.face_id ELSE ""

\* the keys _convert_to_facedata subscripts
RequiredKeys ==
    {"face_id", "face_path", "image_path", "bounding_box", "face_confidence",
     "attributes", "group_id", "embedding"}

convert_ok(json_data) ==
    RequiredKeys \subseteq DOMAIN json_data /\ split_ok(json_data.image_path)

convert_to_facedata(json_data) ==
    [face_id |-> json_data.face_id,
     url |-> generate_url(json_data.image_path),
     face_path |-> json_data.face_path,
     image_path |-> json_data.image_path,
     bounding_box |-> json_data.bounding_box,
     face_confidence |-> json_data.face_confidence,
     attributes |-> json_data.attributes,
     group_id |-> json_data.group_id,
     embedding |-> json_data.embedding]

\* A loop body that rejects a face_id the data holds already
import_one_reject(data, doc) ==
    IF ~load_json_ok(doc) THEN data
    ELSE IF get_face_id(doc) = "" THEN data
    ELSE IF ~convert_ok(doc) THEN data
    ELSE IF ~isinstance_dict(data) THEN data
    ELSE IF Contains(data, get_face_id(doc)) THEN data
    ELSE Dict(SetItem(data.d, get_face_id(doc), convert_to_facedata(doc)))

\* One pass of the loop body of import_metadata: any exception is logged and the
\* document skipped.
import_one(data, doc) ==
    IF ~load_json_ok(doc) THEN data
    ELSE IF get_face_id(doc) = "" THEN data
    ELSE IF ~convert_ok(doc) THEN data
    ELSE IF ~isinstance_dict(data) THEN data
    ELSE Dict(SetItem(data.d, get_face_id(doc), convert_to_facedata(doc)))

RECURSIVE import_loop(_, _)
import_loop(data, json_files) ==
    IF json_files = <<>> THEN data
    ELSE import_loop(import_one(data, Head(json_files)), Tail(json_files))

import_metadata(file, json_files) ==
    IF ~exists(file) THEN Raise("FileNotFoundError", file)
    ELSE Return(None, import_loop(file, json_files))

\* The keys an import assigns
ImportedKeys(json_files) ==
    {get_face_id(json_files[i]) : i \in {j \in DOMAIN json_files :
        /\ load_json_ok(json_files[j])
        /\ get_face_id(json_files[j]) # ""
        /\ convert_ok(json_files[j])}}

(***************************************************************************)
(* import_metadata of FaceDataHandler over DuckDB (api/gateway/duck.py)    *)
(***************************************************************************)
\* _load_json: json.load, then INSERT OR REPLACE of the document's own values; it
\* raises on a file that does not parse and on a key the statement subscripts
duck_load_json_ok(doc) == doc # Unparsable /\ RequiredKeys \subseteq DOMAIN doc

\* The row _load_json binds
json_row(json_data) ==
    [face_id |-> json_data.face_id,
     face_path |-> json_data.face_path,
     image_path |-> json_data.image_path,
     bounding_box_x |-> ToFloat32(json_data.bounding_box.x),
     bounding_box_y |-> ToFloat32(json_data.bounding_box.y),
     bounding_box_width |-> ToFloat32(json_data.bounding_box.width),
     bounding_box_height |-> ToFloat32(json_data.bounding_box.height),
     face_confidence |-> ToFloat32(json_data.face_confidence),
     attributes_race |-> json_data.attributes.race,
     attributes_race_confidence |-> ToFloat32(json_data.attributes.race_confidence),
     group_id |-> json_data.group_id,
     embedding |-> json_dumps(json_data.embedding)]

\* _convert_to_facedata subscripts every key but group_id (json_data.get)
duck_convert_ok(json_data) ==
    (RequiredKeys \ {"group_id"}) \subseteq DOMAIN json_data /\ split_ok(json_data.image_path)

\* the embedding is the text _load_json left in json_data; FaceData parses it
duck_convert_to_facedata(json_data) ==
    [face_id |-> json_data.face_id,
     url |-> generate_url(json_data.image_path),
     face_path |-> json_data.face_path,
     image_path |-> json_data.image_path,
     bounding_box |-> json_data.bounding_box,
     face_confidence |-> json_data.face_confidence,
     attributes |-> json_data.attributes,
     group_id |-> IF "group_id" \in DOMAIN json_data THEN json_data.group_id ELSE NoGroup,
     embedding |-> json_loads(json_dumps(json_data.embedding))]

\* One pass of the loop body of import_metadata: an exception is logged and
\* exit() ends the process.
duck_import_one(rows, doc) ==
    IF ~duck_load_json_ok(doc) THEN [rows |-> rows, exited |-> TRUE]
    ELSE LET loaded == insert_or_replace(rows, json_row(doc)) IN
         IF get_face_id(doc) = "" THEN [rows |-> loaded, exited |-> FALSE]
         ELSE IF ~duck_convert_ok(doc) THEN [rows |-> loaded, exited |-> TRUE]
         ELSE [rows |-> duck_create(loaded, duck_convert_to_facedata(doc)).store,
               exited |-> FALSE]

RECURSIVE duck_import_loop(_, _)
duck_import_loop(rows, json_files) ==
    IF json_files = <<>> THEN [rows |-> rows, exited |-> FALSE]
    ELSE LET one == duck_import_one(rows, Head(json_files)) IN
         IF one.exited THEN one ELSE duck_import_loop(one.rows, Tail(json_files))

duck_import_metadata(rows, json_files) ==
    LET done == duck_import_loop(rows, json_files) IN
    IF done.exited THEN Raise("SystemExit", done.rows) ELSE Return(None, done.rows)

(***************************************************************************)
(* Calls                                                                   *)
(***************************************************************************)
\* Whether the store the handler is over holds key when the call is made
Present(key) ==
    CASE handler = "PickleCRUD" -> Contains(faces_pkl, key)
      [] handler = "people" -> Contains(people_pkl, key)
      [] handler = "duck" -> \E r \in face_data : r.face_id = key
      [] handler = "persons" -> \E r \in people : r.id = key
      [] handler = "gateway" -> Matching(persons, key) # {}

\* The record of a call: value is the record the caller passed, kept when the call
\* succeeded (None for a failed call and for a call that passes none); had tells
\* whether the key was in the store when the call was made.
Call(op, key, value, out) ==
    [op |-> op, key |-> key, had |-> Present(key),
     written |-> IF out.result = "ok" THEN value ELSE None,
     result |-> out.result, ret |-> out.ret]

\* The key recorded for a call that takes none: the people file is keyed by
\* integers, the other stores by strings
NoKey == IF handler = "people" THEN 0 - 1 ELSE ""

\* The record of a call that takes no key
Keyless(op, value, out) ==
    [op |-> op, key |-> NoKey, had |-> FALSE,
     written |-> IF out.result = "ok" THEN value ELSE None,
     result |-> out.result, ret |-> out.ret]

NoCall ==
    [op |-> "none", key |-> NoKey, had |-> FALSE, written |-> None, result |-> "ok",
     ret |-> None]

\* PickleCRUD(path)
PickleCRUD_init ==
    /\ handler = "PickleCRUD"
    /\ faces_pkl' = initialize_pickle_file(faces_pkl)
    /\ constructed' = TRUE
    /\ last' = Keyless("init", None, Return(None, faces_pkl'))
    /\ UNCHANGED <<calls, handler, people_pkl, face_data, people, created, gateway_vars>>

\* create_face (api/api.py): crud.create(face_data.face_id, face_data)
PickleCRUD_create ==
    /\ handler = "PickleCRUD" /\ constructed
    /\ \E value \in FaceRecords :
         LET out == create(faces_pkl, value.face_id, value) IN
           /\ faces_pkl' = out.store
           /\ last' = Call("create", value.face_id, value, out)
           /\ created' = IF out.result = "ok" THEN [key |-> value.face_id, value |-> value]
                         ELSE created
    /\ UNCHANGED <<calls, handler, constructed, people_pkl, face_data, people, gateway_vars>>

\* get_face (api/api.py): FaceDataHandler(path).read(face_id)
PickleCRUD_read ==
    /\ handler = "PickleCRUD" /\ constructed
    /\ \E key \in FaceIds :
         LET out == read(faces_pkl, key) IN
           /\ faces_pkl' = out.store
           /\ last' = Call("read", key, None, out)
    /\ UNCHANGED <<calls, handler, constructed, people_pkl, face_data, people, created, gateway_vars>>

PickleCRUD_read_all ==
    /\ handler = "PickleCRUD" /\ constructed
    /\ LET out == read_all(faces_pkl) IN
           /\ faces_pkl' = out.store
           /\ last' = Keyless("read_all", None, out)
    /\ UNCHANGED <<calls, handler, constructed, people_pkl, face_data, people, created, gateway_vars>>

\* update_face (api/api.py): crud.update(face_id, face_data), the path's face_id
\* and the body's record are independent inputs
PickleCRUD_update ==
    /\ handler = "PickleCRUD" /\ constructed
    /\ \E key \in FaceIds, value \in FaceRecords :
         LET out == update(faces_pkl, key, value) IN
           /\ faces_pkl' = out.store
           /\ last' = Call("update", key, value, out)
           /\ created' = IF out.result = "ok" /\ created # None /\ created.key = key
                         THEN None ELSE created
    /\ UNCHANGED <<calls, handler, constructed, people_pkl, face_data, people, gateway_vars>>

PickleCRUD_delete ==
    /\ handler = "PickleCRUD" /\ constructed
    /\ \E key \in FaceIds :
         LET out == delete(faces_pkl, key) IN
           /\ faces_pkl' = out.store
           /\ last' = Call("delete", key, None, out)
           /\ created' = IF out.result = "ok" /\ created # None /\ created.key = key
                         THEN None ELSE created
    /\ UNCHANGED <<calls, handler, constructed, people_pkl, face_data, people, gateway_vars>>

PickleCRUD_import_metadata ==
    /\ handler = "PickleCRUD" /\ constructed
    /\ \E json_files \in Folders :
         LET out == import_metadata(faces_pkl, json_files) IN
           /\ faces_pkl' = out.store
           /\ last' = Keyless("import_metadata", None, out)
           /\ created' = IF out.result = "ok" /\ created # None
                            /\ created.key \in ImportedKeys(json_files)
                         THEN None ELSE created
    /\ UNCHANGED <<calls, handler, constructed, people_pkl, face_data, people, gateway_vars>>

(***************************************************************************)
(* Calls of the people handler over a pickle file (api/gateway/people.py)  *)
(***************************************************************************)
PersonIds == (0..MaxPersonId) \cup GroupIds

\* The ids get_all_group_ids hands to generate_people_data, in any order
IdLists == {<<>>} \cup {<<g>> : g \in GroupIds}

NamesFile == <<"Jane_Doe", "John_Doe">>

People_init ==
    /\ handler = "people"
    /\ people_pkl' = people_initialize_pickle_file(people_pkl)
    /\ constructed' = TRUE
    /\ last' = Keyless("init", None, Return(None, people_pkl'))
    /\ UNCHANGED <<calls, handler, faces_pkl, face_data, people, created, gateway_vars>>

\* create_person (api/api.py): crud.create(person_name)
People_create ==
    /\ handler = "people" /\ constructed
    /\ isinstance_dict(people_pkl) => people_get_next_key(people_pkl) <= MaxPersonId
    /\ \E value \in PersonNames :
         LET out == people_create(people_pkl, value) IN
           /\ people_pkl' = out.store
           /\ last' = Call("create", IF out.result = "ok" THEN out.ret.person_id ELSE 0,
                           out.ret, out)
           /\ created' = IF out.result = "ok"
                         THEN [key |-> out.ret.person_id, value |-> out.ret]
                         ELSE created
    /\ UNCHANGED <<calls, handler, constructed, faces_pkl, face_data, people, gateway_vars>>

People_read ==
    /\ handler = "people" /\ constructed
    /\ \E key \in PersonIds :
         LET out == people_read(people_pkl, key) IN
           /\ people_pkl' = out.store
           /\ last' = Call("read", key, None, out)
    /\ UNCHANGED <<calls, handler, constructed, faces_pkl, face_data, people, created, gateway_vars>>

People_read_all ==
    /\ handler = "people" /\ constructed
    /\ LET out == people_read_all(people_pkl) IN
           /\ people_pkl' = out.store
           /\ last' = Keyless("read_all", None, out)
    /\ UNCHANGED <<calls, handler, constructed, faces_pkl, face_data, people, created, gateway_vars>>

\* update_person (api/api.py): crud.update(person_id, PersonData(person_id, person_name))
People_update ==
    /\ handler = "people" /\ constructed
    /\ \E key \in PersonIds, name \in PersonNames :
         LET out == people_update(people_pkl, key, PersonData(key, name)) IN
           /\ people_pkl' = out.store
           /\ last' = Call("update", key, PersonData(key, name), out)
           /\ created' = IF out.result = "ok" /\ created # None /\ created.key = key
                         THEN None ELSE created
    /\ UNCHANGED <<calls, handler, constructed, faces_pkl, face_data, people, gateway_vars>>

People_delete ==
    /\ handler = "people" /\ constructed
    /\ \E key \in PersonIds :
         LET out == people_delete(people_pkl, key) IN
           /\ people_pkl' = out.store
           /\ last' = Call("delete", key, None, out)
           /\ created' = IF out.result = "ok" /\ created # None /\ created.key = key
                         THEN None ELSE created
    /\ UNCHANGED <<calls, handler, constructed, faces_pkl, face_data, people, gateway_vars>>

\* main (api/api.py): generate_people_data(get_all_group_ids(), names file)
People_generate_people_data ==
    /\ handler = "people" /\ constructed
    /\ \E ids \in IdLists :
         LET out == generate_people_data(people_pkl, ids, NamesFile) IN
           /\ people_pkl' = out.store
           /\ last' = Keyless("generate_people_data", None, out)
           /\ created' = IF out.result = "ok" /\ created # None
                            /\ \E i \in DOMAIN ids : ids[i] = created.key
                         THEN None ELSE created
    /\ UNCHANGED <<calls, handler, constructed, faces_pkl, face_data, people, gateway_vars>>

(***************************************************************************)
(* Calls of FaceDataHandler over DuckDB (api/gateway/duck.py)              *)
(***************************************************************************)
\* FaceDataHandler(db_path): CREATE TABLE IF NOT EXISTS face_data
Duck_init ==
    /\ handler = "duck"
    /\ constructed' = TRUE
    /\ last' = Keyless("init", None, Return(None, face_data))
    /\ UNCHANGED <<calls, handler, faces_pkl, people_pkl, face_data, people, created, gateway_vars>>

Duck_create ==
    /\ handler = "duck" /\ constructed
    /\ \E value \in FaceRecords :
         LET out == duck_create(face_data, value) IN
           /\ face_data' = out.store
           /\ last' = Call("create", value.face_id, value, out)
           /\ created' = IF ~Present(value.face_id)
                         THEN [key |-> value.face_id, value |-> value]
                         ELSE IF created # None /\ created.key = value.face_id
                         THEN None ELSE created
    /\ UNCHANGED <<calls, handler, constructed, faces_pkl, people_pkl, people, gateway_vars>>

Duck_read ==
    /\ handler = "duck" /\ constructed
    /\ \E key \in FaceIds :
         LET out == duck_read(face_data, key) IN
           /\ face_data' = out.store
           /\ last' = Call("read", key, None, out)
    /\ UNCHANGED <<calls, handler, constructed, faces_pkl, people_pkl, people, created, gateway_vars>>

Duck_read_all ==
    /\ handler = "duck" /\ constructed
    /\ LET out == duck_read_all(face_data) IN
           /\ face_data' = out.store
           /\ last' = Keyless("read_all", None, out)
    /\ UNCHANGED <<calls, handler, constructed, faces_pkl, people_pkl, people, created, gateway_vars>>

Duck_update ==
    /\ handler = "duck" /\ constructed
    /\ \E key \in FaceIds, value \in FaceRecords, raised \in BOOLEAN :
         LET out == duck_update(face_data, key, value, raised) IN
           /\ face_data' = out.store
           /\ last' = Call("update", key, value, out)
    /\ UNCHANGED <<calls, handler, constructed, faces_pkl, people_pkl, people, created, gateway_vars>>

Duck_delete ==
    /\ handler = "duck" /\ constructed
    /\ \E key \in FaceIds :
         LET out == duck_delete(face_data, key) IN
           /\ face_data' = out.store
           /\ last' = Call("delete", key, None, out)
           /\ created' = IF created # None /\ created.key = key THEN None ELSE created
    /\ UNCHANGED <<calls, handler, constructed, faces_pkl, people_pkl, people, gateway_vars>>

\* import_metadata(metadata_folder): exit() ends the process, so a handler has to
\* be constructed again
Duck_import_metadata ==
    /\ handler = "duck" /\ constructed
    /\ \E json_files \in Folders :
         LET out == duck_import_metadata(face_data, json_files) IN
           /\ face_data' = out.store
           /\ constructed' = (out.result = "ok")
           /\ last' = Keyless("import_metadata", None, out)
           /\ created' = IF created # None
                            /\ \E i \in DOMAIN json_files :
                                 get_face_id(json_files[i]) = created.key
                         THEN None ELSE created
    /\ UNCHANGED <<calls, handler, faces_pkl, people_pkl, people, gateway_vars>>

(***************************************************************************)
(* Calls of PersonDataHandler over DuckDB (api/gateway/persons.py)         *)
(***************************************************************************)
PersonIdTexts == {ToString(g) : g \in GroupIds} \cup {"p1"}

FaceIdLists == {<<>>, <<"f1">>}

PersonInputs == [id : PersonIdTexts, name : PersonNames, face_ids : FaceIdLists]

Persons_init ==
    /\ handler = "persons"
    /\ constructed' = TRUE
    /\ last' = Keyless("init", None, Return(None, people))
    /\ UNCHANGED <<calls, handler, faces_pkl, people_pkl, face_data, people, created, gateway_vars>>

Persons_create ==
    /\ handler = "persons" /\ constructed
    /\ \E value \in PersonInputs :
         LET out == persons_create(people, value.id, value.name, value.face_ids) IN
           /\ people' = out.store
           /\ last' = Call("create", value.id, value, out)
           /\ created' = IF out.result = "ok" THEN [key |-> value.id, value |-> value]
                         ELSE created
    /\ UNCHANGED <<calls, handler, constructed, faces_pkl, people_pkl, face_data, gateway_vars>>

Persons_read ==
    /\ handler = "persons" /\ constructed
    /\ \E key \in PersonIdTexts :
         LET out == persons_read(people, key) IN
           /\ people' = out.store
           /\ last' = Call("read", key, None, out)
    /\ UNCHANGED <<calls, handler, constructed, faces_pkl, people_pkl, face_data, created, gateway_vars>>

Persons_read_all ==
    /\ handler = "persons" /\ constructed
    /\ LET out == persons_read_all(people) IN
           /\ people' = out.store
           /\ last' = Keyless("read_all", None, out)
    /\ UNCHANGED <<calls, handler, constructed, faces_pkl, people_pkl, face_data, created, gateway_vars>>

Persons_update ==
    /\ handler = "persons" /\ constructed
    /\ \E key \in PersonIdTexts,
          name \in {None} \cup {Some(n) : n \in PersonNames},
          face_ids \in {None} \cup {Some(l) : l \in FaceIdLists} :
         LET out == persons_update(people, key, name, face_ids) IN
           /\ people' = out.store
           /\ last' = Call("update", key, [name |-> name, face_ids |-> face_ids], out)
           /\ created' = IF out.result = "ok" /\ created # None /\ created.key = key
                         THEN None ELSE created
    /\ UNCHANGED <<calls, handler, constructed, faces_pkl, people_pkl, face_data, gateway_vars>>

Persons_delete ==
    /\ handler = "persons" /\ constructed
    /\ \E key \in PersonIdTexts :
         LET out == persons_delete(people, key) IN
           /\ people' = out.store
           /\ last' = Call("delete", key, None, out)
           /\ created' = IF created # None /\ created.key = key THEN None ELSE created
    /\ UNCHANGED <<calls, handler, constructed, faces_pkl, people_pkl, face_data, gateway_vars>>

(***************************************************************************)
(* Calls of DuckDbGateway (api/gateway/person.py)                          *)
(***************************************************************************)
GatewayIds == {"p1", "p2"}

PersonRows == [face_id : {"f1", "f2"}, person_id : GatewayIds, person_tag : {"a"}]

\* the fields update_person is given: none, or a new tag
Updates == {<<>>, [person_tag |-> "b"]}

\* DuckDbGateway(db_path): conn = None
Gateway_init ==
    /\ handler = "gateway"
    /\ constructed' = TRUE
    /\ conn' = "None"
    /\ last' = Keyless("init", None, Return(None, persons))
    /\ UNCHANGED <<calls, handler, faces_pkl, people_pkl, face_data, people, persons_key,
                   persons, created>>

\* __enter__: duckdb.connect
Gateway_enter ==
    /\ handler = "gateway" /\ constructed
    /\ conn' = "open"
    /\ last' = Keyless("enter", None, Return(None, persons))
    /\ UNCHANGED <<calls, handler, constructed, faces_pkl, people_pkl, face_data, people,
                   persons_key, persons, created>>

\* __exit__: if self.conn: self.conn.close()
Gateway_exit ==
    /\ handler = "gateway" /\ constructed
    /\ conn' = IF conn = "None" THEN "None" ELSE "closed"
    /\ last' = Keyless("exit", None, Return(None, persons))
    /\ UNCHANGED <<calls, handler, constructed, faces_pkl, people_pkl, face_data, people,
                   persons_key, persons, created>>

Gateway_create_person ==
    /\ handler = "gateway" /\ constructed
    /\ Len(persons) < MaxPersonRows
    /\ \E person_data \in PersonRows :
         LET out == create_person(conn, persons_key, persons, person_data) IN
           /\ persons' = out.store
           /\ last' = Call("create", person_data.person_id, person_data, out)
    /\ UNCHANGED <<calls, handler, constructed, faces_pkl, people_pkl, face_data, people, conn,
                   persons_key, created>>

Gateway_get_person ==
    /\ handler = "gateway" /\ constructed
    /\ \E person_id \in GatewayIds :
         \E pick \in IF Matching(persons, person_id) = {} THEN {0}
                     ELSE Matching(persons, person_id) :
           LET out == get_person(conn, persons, person_id, pick) IN
             /\ persons' = out.store
             /\ last' = Call("read", person_id, None, out)
    /\ UNCHANGED <<calls, handler, constructed, faces_pkl, people_pkl, face_data, people, conn,
                   persons_key, created>>

Gateway_get_all_persons ==
    /\ handler = "gateway" /\ constructed
    /\ LET out == get_all_persons(conn, persons) IN
           /\ persons' = out.store
           /\ last' = Keyless("read_all", None, out)
    /\ UNCHANGED <<calls, handler, constructed, faces_pkl, people_pkl, face_data, people, conn,
                   persons_key, created>>

Gateway_update_person ==
    /\ handler = "gateway" /\ constructed
    /\ \E person_id \in GatewayIds, updates \in Updates :
         LET out == update_person(conn, persons, person_id, updates) IN
           /\ persons' = out.store
           /\ last' = Call("update", person_id, [updates |-> updates], out)
    /\ UNCHANGED <<calls, handler, constructed, faces_pkl, people_pkl, face_data, people, conn,
                   persons_key, created>>

Gateway_delete_person ==
    /\ handler = "gateway" /\ constructed
    /\ \E person_id \in GatewayIds :
         LET out == delete_person(conn, persons, person_id) IN
           /\ persons' = out.store
           /\ last' = Call("delete", person_id, None, out)
    /\ UNCHANGED <<calls, handler, constructed, faces_pkl, people_pkl, face_data, people, conn,
                   persons_key, created>>

Init ==
    /\ handler \in {"PickleCRUD", "people", "duck", "persons", "gateway"}
    /\ constructed = FALSE
    /\ faces_pkl \in IF handler = "PickleCRUD"
                     THEN {Missing, EmptyDict, List(<<>>), List(<<"f1">>)} ELSE {Missing}
    /\ people_pkl \in IF handler = "people"
                      THEN {Missing, EmptyDict, List(<<>>)} ELSE {Missing}
    /\ face_data = {}
    /\ people = {}
    /\ conn = "None"
    /\ persons_key \in IF handler = "gateway" THEN {"", "face_id", "person_id"} ELSE {""}
    /\ persons = <<>>
    /\ last = NoCall
    /\ created = None
    /\ calls = <<>>

Next ==
    \/ PickleCRUD_init
    \/ PickleCRUD_create
    \/ PickleCRUD_read
    \/ PickleCRUD_read_all
    \/ PickleCRUD_update
    \/ PickleCRUD_delete
    \/ PickleCRUD_import_metadata
    \/ People_init
    \/ People_create
    \/ People_read
    \/ People_read_all
    \/ People_update
    \/ People_delete
    \/ People_generate_people_data
    \/ Duck_init
    \/ Duck_create
    \/ Duck_read
    \/ Duck_read_all
    \/ Duck_update
    \/ Duck_delete
    \/ Duck_import_metadata
    \/ Persons_init
    \/ Persons_create
    \/ Persons_read
    \/ Persons_read_all
    \/ Persons_update
    \/ Persons_delete
    \/ Gateway_init
    \/ Gateway_enter
    \/ Gateway_exit
    \/ Gateway_create_person
    \/ Gateway_get_person
    \/ Gateway_get_all_persons
    \/ Gateway_update_person
    \/ Gateway_delete_person

Spec == Init /\ [][Next]_vars

(***************************************************************************)
(* Listings and queries (api/api.py, api/gateway.py). They are checked on  *)
(* the files a handler can be over: QuerySpec draws the file and applies   *)
(* the listings, the group queries and the health probe to it.             *)
(***************************************************************************)
Min(a, b) == IF a <= b THEN a ELSE b

\* The keys of a dict in its order. A dict keeps the order its keys were inserted in
\* and the pickle file keeps it; the mapping of the model records no order, so one
\* order per mapping stands for it.
keys(f) ==
    CHOOSE s \in [1..Cardinality(DOMAIN f) -> DOMAIN f] :
        \A k \in DOMAIN f : \E i \in DOMAIN s : s[i] = k

\* list(data.values())
values(f) == [i \in 1..Cardinality(DOMAIN f) |-> f[keys(f)[i]]]

\* l[start : stop] for start, stop >= 0: the items at the 0-based offsets from start
\* up to but excluding stop, both clamped to len(l)
slice(l, start, stop) ==
    LET lo == Min(start, Len(l))
        hi == Min(stop, Len(l))
    IN [i \in 1..(hi - lo) |-> l[lo + i]]

\* A listing whose offset counts the pages from 0
get_all_faces_from_zero(file, page_number, page_length) ==
    LET store == initialize_pickle_file(file)
        faces == read_all(store)
    IN IF faces.result # "ok" THEN Raise("HTTPException", store)
       ELSE LET faces_list == values(faces.ret.d)
                offset == page_number * page_length
            IN Return([records |-> slice(faces_list, offset, offset + page_length)], store)

\* get_all_faces: FaceDataHandler(path).read_all(), list(faces.values()), the slice;
\* any exception becomes HTTPException(status_code=400)
get_all_faces(file, page_number, page_length) ==
    LET store == initialize_pickle_file(file)
        faces == read_all(store)
    IN IF faces.result # "ok" THEN Raise("HTTPException", store)
       ELSE LET faces_list == values(faces.ret.d)
                offset == (page_number - 1) * page_length
            IN Return([records |-> slice(faces_list, offset, offset + page_length)], store)

\* get_persons: the same over the people file
get_persons(file, page_number, page_length) ==
    LET store == people_initialize_pickle_file(file)
        all == people_read_all(store)
    IN IF all.result # "ok" THEN Raise("HTTPException", store)
       ELSE LET people_list == values(all.ret.d)
                offset == (page_number - 1) * page_length
            IN Return([records |-> slice(people_list, offset, offset + page_length)], store)

\* A query that returns every record that has a group, whatever group was asked for
find_by_group_id_any(file, group_id) ==
    IF ~exists(file) THEN Raise("FileNotFoundError", file)
    ELSE IF ~isinstance_dict(file) THEN Raise("AttributeError", file)
    ELSE Return([records |-> SelectSeq(values(file.d), LAMBDA face_data_ : face_data_.group_id # NoGroup)],
                file)

\* find_by_group_id: the values whose group_id == group_id, in the dict's order; a
\* list has no values() (AttributeError)
find_by_group_id(file, group_id) ==
    IF ~exists(file) THEN Raise("FileNotFoundError", file)
    ELSE IF ~isinstance_dict(file) THEN Raise("AttributeError", file)
    ELSE Return([records |-> SelectSeq(values(file.d), LAMBDA face_data_ : face_data_.group_id = group_id)],
                file)

\* list(s) of a set: its members, each once, in some order
list(S) ==
    CHOOSE l \in [1..Cardinality(S) -> S] : \A x \in S : \E i \in DOMAIN l : l[i] = x

\* A collection of the group ids that leaves out the test for None
get_all_group_ids_unfiltered(file) ==
    IF ~exists(file) THEN Raise("FileNotFoundError", file)
    ELSE IF ~isinstance_dict(file) THEN Raise("AttributeError", file)
    ELSE Return([records |-> list({file.d[k].group_id : k \in DOMAIN file.d})], file)

\* get_all_group_ids: list of the set of the group_ids that are not None
get_all_group_ids(file) ==
    IF ~exists(file) THEN Raise("FileNotFoundError", file)
    ELSE IF ~isinstance_dict(file) THEN Raise("AttributeError", file)
    ELSE Return([records |-> list({file.d[k].group_id : k \in DOMAIN file.d} \ {NoGroup})],
                file)

\* A path that exists and cannot be opened (a directory, a file without permission)
Unreadable == [kind |-> "unreadable", d |-> <<>>]

\* HTTPException(status_code=503, detail=f"Health check failed: {str(e)}")
ServiceUnavailable(e, store) ==
    [result |-> "HTTPException", ret |-> [status_code |-> 503, detail |-> e], store |-> store]

\* A probe that constructs the handler and reads nothing
health_check_unread(file) ==
    Return([status |-> "healthy"], initialize_pickle_file(file))

\* health_check: FaceDataHandler(path).read_all(); any exception is a 503
health_check(file) ==
    LET store == initialize_pickle_file(file) IN
      IF store = Unreadable THEN ServiceUnavailable("PermissionError", store)
      ELSE LET faces == read_all(store)
           IN IF faces.result # "ok" THEN ServiceUnavailable(faces.result, store)
              ELSE Return([status |-> "healthy"], store)

\* The group ids of the records the queries are applied to
QueryGroupIds == {7, 9}

QueryRecords == {FaceData(fid, gid, Exact) : fid \in FaceIds, gid \in QueryGroupIds \cup {NoGroup}}

\* The faces files: a dict of records under their face_id, or a list
QueryFaceFiles ==
    {Dict(f) : f \in {g \in UNION {[S -> QueryRecords] : S \in SUBSET FaceIds} :
                        \A k \in DOMAIN g : g[k].face_id = k}}
        \cup {Missing, List(<<>>)}

\* The people files: a dict of records under their person_id, or a list
QueryPeopleFiles ==
    {Dict(f) : f \in {g \in UNION {[S -> {PersonData(k, n) : k \in 0..MaxPersonId,
                                                             n \in PersonNames}] :
                                     S \in SUBSET (0..MaxPersonId)} :
                        \A k \in DOMAIN g : g[k].person_id = k}}
        \cup {Missing, List(<<>>)}

Pages == [page_number : 1..MaxPage, page_length : 1..MaxPageLength]

Api_get_all_faces ==
    /\ handler = "PickleCRUD"
    /\ \E page \in Pages :
         LET out == get_all_faces(faces_pkl, page.page_number, page.page_length) IN
           /\ faces_pkl' = out.store
           /\ last' = Keyless("get_all_faces", page, out)
    /\ UNCHANGED <<calls, handler, constructed, people_pkl, face_data, people, gateway_vars,
                   created>>

Api_get_persons ==
    /\ handler = "people"
    /\ \E page \in Pages :
         LET out == get_persons(people_pkl, page.page_number, page.page_length) IN
           /\ people_pkl' = out.store
           /\ last' = Keyless("get_persons", page, out)
    /\ UNCHANGED <<calls, handler, constructed, faces_pkl, face_data, people, gateway_vars,
                   created>>

PickleCRUD_find_by_group_id ==
    /\ handler = "PickleCRUD" /\ constructed
    /\ \E group_id \in QueryGroupIds :
         LET out == find_by_group_id(faces_pkl, group_id) IN
           /\ faces_pkl' = out.store
           /\ last' = Keyless("find_by_group_id", [group_id |-> group_id], out)
    /\ UNCHANGED <<calls, handler, constructed, people_pkl, face_data, people, gateway_vars,
                   created>>

PickleCRUD_get_all_group_ids ==
    /\ handler = "PickleCRUD" /\ constructed
    /\ LET out == get_all_group_ids(faces_pkl) IN
           /\ faces_pkl' = out.store
           /\ last' = Keyless("get_all_group_ids", None, out)
    /\ UNCHANGED <<calls, handler, constructed, people_pkl, face_data, people, gateway_vars,
                   created>>

Api_health_check ==
    /\ handler = "PickleCRUD"
    /\ LET out == health_check(faces_pkl) IN
           /\ faces_pkl' = out.store
           /\ last' = [Keyless("health_check", None, out) EXCEPT !.written = faces_pkl]
    /\ UNCHANGED <<calls, handler, constructed, people_pkl, face_data, people, gateway_vars,
                   created>>

InitQuery ==
    /\ handler \in {"PickleCRUD", "people"}
    /\ faces_pkl \in IF handler = "PickleCRUD" THEN QueryFaceFiles \cup {Unreadable} ELSE {Missing}
    /\ people_pkl \in IF handler = "people" THEN QueryPeopleFiles ELSE {Missing}
    /\ constructed = IF handler = "PickleCRUD" THEN exists(faces_pkl) /\ faces_pkl # Unreadable
                     ELSE exists(people_pkl)
    /\ face_data = {}
    /\ people = {}
    /\ conn = "None"
    /\ persons_key = ""
    /\ persons = <<>>
    /\ last = NoCall
    /\ created = None
    /\ calls = <<>>

NextQuery ==
    \/ Api_get_all_faces
    \/ Api_get_persons
    \/ PickleCRUD_find_by_group_id
    \/ PickleCRUD_get_all_group_ids
    \/ Api_health_check

QuerySpec == InitQuery /\ [][NextQuery]_vars

(***************************************************************************)
(* The import pipelines: api.py main over the pickle files, and over       *)
(* DuckDB import_metadata of duck.py and populate_persons_table of         *)
(* import_people.py. Each reads the metadata folder once.                  *)
(***************************************************************************)
\* str(json_data.get("group_id")): the text of the id, "None" for None
str(v) == IF v = NoGroup THEN "None" ELSE ToString(v)

\* json_data.get(key) of a key whose values are not None: <<>> stands for None
get(json_data, key) == IF key \in DOMAIN json_data THEN json_data[key] ELSE <<>>

\* The loop of populate_persons_table over one document: persons_data maps the
\* text of a group to the name first set for it and the face_ids appended
persons_data_one(persons_data, doc) ==
    IF doc = Unparsable THEN persons_data
    ELSE LET group_id == str(IF "group_id" \in DOMAIN doc THEN doc.group_id ELSE NoGroup)
             face_id == get_face_id(doc)
             image_path == get(doc, "image_path")
         IN IF group_id = "" \/ face_id = "" \/ image_path = <<>> THEN persons_data
            ELSE IF group_id \in DOMAIN persons_data
            THEN [persons_data EXCEPT ![group_id].face_ids = Append(@, face_id)]
            ELSE SetItem(persons_data, group_id,
                         [name |-> basename(dirname(image_path)), face_ids |-> <<face_id>>])

RECURSIVE persons_data_loop(_, _)
persons_data_loop(persons_data, json_files) ==
    IF json_files = <<>> THEN persons_data
    ELSE persons_data_loop(persons_data_one(persons_data, Head(json_files)), Tail(json_files))

\* populate_persons_table: INSERT OR REPLACE INTO people of one row per group
populate_persons_table(rows, json_files) ==
    LET persons_data == persons_data_loop(<<>>, json_files) IN
    Return(None,
           {r \in rows : r.id \notin DOMAIN persons_data}
             \cup {[id |-> group_id, name |-> persons_data[group_id].name,
                    face_ids |-> json_dumps(persons_data[group_id].face_ids)]
                   : group_id \in DOMAIN persons_data})

\* main of api.py: both handlers are constructed, the folder is imported and the
\* people are generated for the group ids of the faces file. out.store holds both
\* files.
main(faces_file, people_file, json_files, names) ==
    LET faces0 == initialize_pickle_file(faces_file)
        people0 == people_initialize_pickle_file(people_file)
        imported == import_metadata(faces0, json_files)
        people_ids == get_all_group_ids(imported.store)
        generated == generate_people_data(people0, people_ids.ret.records, names)
    IN IF imported.result # "ok"
       THEN Raise(imported.result, [faces |-> imported.store, people |-> people0])
       ELSE IF people_ids.result # "ok"
       THEN Raise(people_ids.result, [faces |-> imported.store, people |-> people0])
       ELSE [generated EXCEPT !.store = [faces |-> imported.store, people |-> generated.store]]

\* The documents of the imported folders: of each face id, of each group and of
\* no group; the image of f2 is in the directory John_Doe, the others' in Jane_Doe
DirectoryOf(fid) == IF fid = "f2" THEN "John_Doe" ELSE "Jane_Doe"

ImportDoc(fid, gid) ==
    [JsonDoc(fid, gid, Exact) EXCEPT !.image_path = PathIn(DirectoryOf(fid))]

ImportValidDocs ==
    {ImportDoc(fid, gid) : fid \in FaceIds, gid \in QueryGroupIds \cup {NoGroup}}

ImportDocs ==
    ImportValidDocs \cup {Unparsable,
                          Without(ImportDoc("f1", 7), "face_id"),
                          Without(ImportDoc("f2", 7), "bounding_box"),
                          [ImportDoc("f1", 7) EXCEPT !.image_path = Tail(Tail(@))]}

ImportFolders == UNION {[1..n -> ImportDocs] : n \in 0..(MaxDocs + 1)}

Main_run ==
    /\ handler = "main"
    /\ \E json_files \in IF constructed THEN {last.written} ELSE ImportFolders :
         LET out == main(faces_pkl, people_pkl, json_files, NamesFile) IN
           /\ faces_pkl' = out.store.faces
           /\ people_pkl' = out.store.people
           /\ last' = [Keyless("main", None, out)
                         EXCEPT !.written = json_files,
                                !.had = \E i \in DOMAIN json_files :
                                          Contains(faces_pkl, get_face_id(json_files[i]))]
    /\ constructed' = TRUE
    /\ UNCHANGED <<calls, handler, face_data, people, gateway_vars, created>>

\* FaceDataHandler(db_path).import_metadata(folder) of duck.py
Script_import_metadata ==
    /\ handler = "duck"
    /\ \E json_files \in IF constructed THEN {last.written} ELSE ImportFolders :
         LET out == duck_import_metadata(face_data, json_files) IN
           /\ face_data' = out.store
           /\ last' = [Keyless("import_metadata", None, out)
                         EXCEPT !.written = json_files,
                                !.had = \E i \in DOMAIN json_files, r \in face_data :
                                          r.face_id = get_face_id(json_files[i])]
    /\ constructed' = TRUE
    /\ UNCHANGED <<calls, handler, faces_pkl, people_pkl, people, gateway_vars, created>>

Script_populate_persons_table ==
    /\ handler = "import_people"
    /\ \E json_files \in IF constructed THEN {last.written} ELSE ImportFolders :
         LET out == populate_persons_table(people, json_files) IN
           /\ people' = out.store
           /\ last' = [Keyless("populate_persons_table", None, out)
                         EXCEPT !.written = json_files]
    /\ constructed' = TRUE
    /\ UNCHANGED <<calls, handler, faces_pkl, people_pkl, face_data, gateway_vars, created>>

\* The stores an import starts from: none, empty ones, and ones that hold a
\* record of earlier work. A behaviour is a run of one pipeline over a folder,
\* and runs of it again over the same folder.
InitImport ==
    /\ handler \in {"main", "duck", "import_people"}
    /\ constructed = FALSE
    /\ faces_pkl \in IF handler = "main"
                     THEN {Missing, EmptyDict,
                           Dict(SetItem(<<>>, "f1", convert_to_facedata(ImportDoc("f1", 9))))}
                     ELSE {Missing}
    /\ people_pkl \in IF handler = "main"
                      THEN {Missing, EmptyDict, Dict(SetItem(<<>>, 9, PersonData(9, "John_Doe")))}
                      ELSE {Missing}
    /\ face_data \in IF handler = "duck"
                     THEN {{}, {json_row(ImportDoc("f1", 9))}} ELSE {{}}
    /\ people \in IF handler = "import_people"
                  THEN {{}, {[id |-> "9", name |-> "John_Doe", face_ids |-> json_dumps(<<"f1">>)]}}
                  ELSE {{}}
    /\ conn = "None"
    /\ persons_key = ""
    /\ persons = <<>>
    /\ last = NoCall
    /\ created = None
    /\ calls = <<>>

NextImport ==
    \/ Main_run
    \/ Script_import_metadata
    \/ Script_populate_persons_table

ImportSpec == InitImport /\ [][NextImport]_vars

(***************************************************************************)
(* Calls of two threads over one pickle file. A call is the steps of its   *)
(* code: get_next_key (people create only), _read_pickle into the thread's *)
(* own data, and _write_pickle of that data after the call changed it.     *)
(***************************************************************************)
IsKV == handler \in {"PickleCRUD", "people"}

\* The pickle file of the handler in use
KVFile == IF handler = "PickleCRUD" THEN faces_pkl ELSE people_pkl

Threads == {1, 2}

\* A call that has not started: data is the thread's copy of the file
CallOf(op, key, value) ==
    [op |-> op, key |-> key, value |-> value, pc |-> "start", next_key |-> 0,
     data |-> Missing, result |-> "ok", ret |-> None]

\* create of people.py from the key get_next_key gave and the data read after it
people_create_at(data, key, value) ==
    IF ~isinstance_dict(data) THEN Raise("IndexError", data)
    ELSE Return(PersonData(key, value), Dict(SetItem(data.d, key, PersonData(key, value))))

\* A write that reads the file again and adds the call's change to it
Compute_merged(call, file) ==
    CASE call.op = "create" -> create(file, call.key, call.value)
      [] call.op = "update" -> update(file, call.key, call.value)
      [] call.op = "delete" -> delete(file, call.key)
      [] call.op = "import_metadata" -> import_metadata(file, call.value.json_files)
      [] call.op = "people_create" ->
           people_create_at(file, people_get_next_key(file), call.value.person_name)

\* What a call does between its read and its write: the outcome and the data it
\* writes. The file at the time of the write plays no part.
Compute(call, file) ==
    CASE call.op = "create" -> create(call.data, call.key, call.value)
      [] call.op = "update" -> update(call.data, call.key, call.value)
      [] call.op = "delete" -> delete(call.data, call.key)
      [] call.op = "import_metadata" -> import_metadata(call.data, call.value.json_files)
      [] call.op = "people_create" ->
           people_create_at(call.data, call.next_key, call.value.person_name)

\* get_next_key: the key is computed from the file as it is now
Thread_get_next_key ==
    /\ handler = "people"
    /\ \E t \in Threads :
         /\ calls[t].op = "people_create" /\ calls[t].pc = "start"
         /\ calls' = [calls EXCEPT ![t].pc = "keyed",
                                   ![t].next_key = people_get_next_key(people_pkl)]
    /\ UNCHANGED <<handler, constructed, faces_pkl, people_pkl, face_data, people,
                   gateway_vars, last, created>>

\* data = self._read_pickle()
Thread_read_pickle ==
    /\ \E t \in Threads :
         /\ calls[t].pc = IF calls[t].op = "people_create" THEN "keyed" ELSE "start"
         /\ calls' = [calls EXCEPT ![t].pc = "read", ![t].data = KVFile]
    /\ UNCHANGED <<handler, constructed, faces_pkl, people_pkl, face_data, people,
                   gateway_vars, last, created>>

\* The rest of the call: it raises and writes nothing, or self._write_pickle(data)
\* replaces the file and the call returns
Thread_write_pickle ==
    /\ \E t \in Threads :
         /\ calls[t].pc = "read"
         /\ LET out == Compute(calls[t], KVFile) IN
              /\ calls' = [calls EXCEPT ![t].pc = "done", ![t].result = out.result,
                                        ![t].ret = out.ret]
              /\ faces_pkl' = IF handler = "PickleCRUD" /\ out.result = "ok"
                              THEN out.store ELSE faces_pkl
              /\ people_pkl' = IF handler = "people" /\ out.result = "ok"
                               THEN out.store ELSE people_pkl
    /\ UNCHANGED <<handler, constructed, face_data, people, gateway_vars, last, created>>

\* The records and the calls of the two threads
ConcurrentRecords == {FaceData(fid, gid, Exact) : fid \in FaceIds, gid \in GroupIds \cup {NoGroup}}

FirstCalls ==
    {CallOf("create", r.face_id, r) : r \in ConcurrentRecords}
      \cup {CallOf("import_metadata", "", [json_files |-> f]) : f \in Folders}

SecondCalls ==
    {CallOf(op, r.face_id, r) : op \in {"create", "update", "delete"}, r \in ConcurrentRecords}

PeopleCalls == {CallOf("people_create", 0 - 1, [person_name |-> n]) : n \in PersonNames}

InitConcurrent ==
    /\ handler \in {"PickleCRUD", "people"}
    /\ constructed = TRUE
    /\ faces_pkl \in IF handler = "PickleCRUD"
                     THEN {EmptyDict} \cup {Dict(SetItem(<<>>, fid, FaceData(fid, NoGroup, Exact)))
                                             : fid \in FaceIds}
                     ELSE {Missing}
    /\ people_pkl \in IF handler = "people"
                      THEN {EmptyDict, Dict(SetItem(<<>>, 0, PersonData(0, "Jane_Doe")))}
                      ELSE {Missing}
    /\ face_data = {}
    /\ people = {}
    /\ conn = "None"
    /\ persons_key = ""
    /\ persons = <<>>
    /\ last = NoCall
    /\ created = None
    /\ calls \in IF handler = "PickleCRUD"
                 THEN {<<a, b>> : a \in FirstCalls, b \in SecondCalls}
                 ELSE {<<a, b>> : a \in PeopleCalls, b \in PeopleCalls}

NextConcurrent ==
    \/ Thread_get_next_key
    \/ Thread_read_pickle
    \/ Thread_write_pickle

ConcurrentSpec == InitConcurrent /\ [][NextConcurrent]_vars

(***************************************************************************)
(* Properties                                                              *)
(***************************************************************************)
\* What read(key) of the handler in use returns on a pickle file
KVRead(file, key) == IF handler = "PickleCRUD" THEN read(file, key) ELSE people_read(file, key)

\* A record with its FLOAT columns rounded to single precision
Float32Record(fd) == convert_row_to_facedata(face_row(fd))

\* C1: in the Face collection of either backend, read(K) after create(K, R), with
\* no mutation of K in between (created is that K and R), returns a record equal
\* to R.
C1_CreateThenReadReturnsRecord ==
    (handler \in {"PickleCRUD", "duck"} /\ last.op = "read"
        /\ created # None /\ last.key = created.key)
    => (last.result = "ok" /\ last.ret = created.value)

\* C2: PickleCRUD.create(K, R) with K present raises KeyError and leaves the file
\* as it was: every entry, the one under K included, is unchanged.
C2_CreateDuplicateFails ==
    [][(handler = "PickleCRUD" /\ last'.op = "create"
          /\ isinstance_dict(faces_pkl) /\ last'.key \in DOMAIN faces_pkl.d)
       => (/\ last'.result = "KeyError"
           /\ faces_pkl' = faces_pkl
           /\ read(faces_pkl', last'.key).ret = faces_pkl.d[last'.key])]_vars

C2_Witness ==
    /\ handler = "PickleCRUD" /\ last.op = "create" /\ last.result = "KeyError"
    /\ isinstance_dict(faces_pkl) /\ last.key \in DOMAIN faces_pkl.d

C4_DeleteThenReadAbsent ==
    (last.op = "delete" /\ last.result = "ok") =>
        CASE handler = "PickleCRUD" ->
               /\ read(faces_pkl, last.key) = Return(None, faces_pkl)
               /\ read_all(faces_pkl).result = "ok"
               /\ last.key \notin DOMAIN read_all(faces_pkl).ret.d
          [] handler = "people" ->
               /\ people_read(people_pkl, last.key) = Return(None, people_pkl)
               /\ people_read_all(people_pkl).result = "ok"
               /\ last.key \notin DOMAIN people_read_all(people_pkl).ret.d
          [] handler = "duck" ->
               /\ duck_read(face_data, last.key) = Return(None, face_data)
               /\ \A rec \in duck_read_all(face_data).ret.records : rec.face_id # last.key
          [] handler = "persons" ->
               /\ persons_read(people, last.key) = Return(None, people)
               /\ \A rec \in persons_read_all(people).ret.records : rec.id # last.key
          [] handler = "gateway" ->
               /\ \A pick \in 0..Len(persons) :
                    get_person(conn, persons, last.key, pick) = Return(None, persons)
               /\ Matching(get_all_persons(conn, persons).ret.records, last.key) = {}

C4_Witness ==
    /\ handler = "PickleCRUD" /\ last.op = "delete" /\ last.result = "ok"
    /\ DOMAIN faces_pkl.d # {}

\* C5: on a pickle file holding a mapping, delete(K) with K absent raises KeyError
\* and leaves the file as it was; a delete(K) right after a successful delete(K)
\* raises KeyError.
C5_DeleteAbsentFails ==
    /\ [][(IsKV /\ last'.op = "delete"
             /\ isinstance_dict(KVFile) /\ last'.key \notin DOMAIN KVFile.d)
          => (last'.result = "KeyError" /\ KVFile' = KVFile)]_vars
    /\ [][(IsKV /\ last.op = "delete" /\ last.result = "ok"
             /\ last'.op = "delete" /\ last'.key = last.key)
          => last'.result = "KeyError"]_vars

C5_Witness ==
    /\ IsKV /\ last.op = "delete" /\ last.result = "KeyError"
    /\ isinstance_dict(KVFile) /\ DOMAIN KVFile.d # {}

\* C6: on a pickle file holding a mapping, update(K, R2) with K absent raises
\* KeyError, inserts nothing and leaves the file as it was; with K present it
\* succeeds and read(K) then returns R2.
C6_UpdateAbsentFails ==
    [][(IsKV /\ last'.op = "update" /\ isinstance_dict(KVFile))
       => IF last'.key \in DOMAIN KVFile.d
          THEN /\ last'.result = "ok"
               /\ KVRead(KVFile', last'.key) = Return(last'.written, KVFile')
          ELSE /\ last'.result = "KeyError"
               /\ KVFile' = KVFile
               /\ last'.key \notin DOMAIN KVFile'.d]_vars

C6_Witness ==
    /\ IsKV /\ last.op = "update" /\ last.result = "KeyError"
    /\ isinstance_dict(KVFile) /\ DOMAIN KVFile.d # {}

\* C7: every record of the pickle-backed Face collection is stored under the key
\* equal to its own face_id.
C7_StoredUnderOwnFaceId ==
    (handler = "PickleCRUD" /\ isinstance_dict(faces_pkl))
    => \A k \in DOMAIN faces_pkl.d : faces_pkl.d[k].face_id = k

\* C8: read never changes the pickle file, and on a file holding a mapping read(K)
\* with K absent returns None without raising.
C8_ReadAbsentReturnsNone ==
    [][(IsKV /\ last'.op = "read")
       => (/\ KVFile' = KVFile
           /\ (isinstance_dict(KVFile) /\ last'.key \notin DOMAIN KVFile.d)
              => (last'.result = "ok" /\ last'.ret = None))]_vars

C8_Witness ==
    /\ IsKV /\ last.op = "read" /\ last.result = "ok" /\ last.ret = None
    /\ isinstance_dict(KVFile) /\ DOMAIN KVFile.d # {}

\* C9: read_all returns the whole mapping when the pickle file holds a mapping and
\* raises ValueError when it holds anything else; it never changes the file.
C9_ReadAllMappingOrCorrupt ==
    [][(IsKV /\ last'.op = "read_all")
       => (/\ KVFile' = KVFile
           /\ IF isinstance_dict(KVFile)
              THEN last'.result = "ok" /\ last'.ret = KVFile
              ELSE last'.result = "ValueError")]_vars

C9_Witness ==
    /\ IsKV /\ last.op = "read_all" /\ last.result = "ValueError"
    /\ ~isinstance_dict(KVFile)

\* C10: constructing a handler writes an empty mapping when the pickle file does
\* not exist and leaves an existing file as it is.
C10_InitializeIdempotent ==
    [][(IsKV /\ last'.op = "init")
       => KVFile' = (IF exists(KVFile) THEN KVFile ELSE EmptyDict)]_vars

C10_Witness ==
    /\ IsKV /\ last.op = "init"
    /\ isinstance_dict(KVFile) /\ DOMAIN KVFile.d # {}

\* The page a listing of the handler in use returns
KVPage(file, page_number, page_length) ==
    IF handler = "PickleCRUD" THEN get_all_faces(file, page_number, page_length).ret.records
    ELSE get_persons(file, page_number, page_length).ret.records

\* The pages first..final of a file, one after the other
RECURSIVE PagesFrom(_, _, _, _)
PagesFrom(file, first, final, page_length) ==
    IF first > final THEN <<>>
    ELSE KVPage(file, first, page_length) \o PagesFrom(file, first + 1, final, page_length)

\* C11: over a file holding N records a listing of page p with page length ps
\* succeeds and returns the records at the offsets (p-1)*ps up to but excluding
\* min(N, p*ps) of the full listing, min(ps, max(0, N-(p-1)*ps)) of them (none
\* beyond the end); and the pages 1..ceil(N/ps) one after the other are the full
\* listing, every record once.
C11_Pagination ==
    /\ [][(IsKV /\ last'.op \in {"get_all_faces", "get_persons"} /\ isinstance_dict(KVFile'))
          => LET full == values(KVFile'.d)
                 N == Len(full)
                 p == last'.written.page_number
                 ps == last'.written.page_length
                 page == last'.ret.records
             IN /\ last'.result = "ok"
                /\ Len(page) = Min(ps, Max({0, N - (p - 1) * ps}))
                /\ \A i \in 1..Len(page) : page[i] = full[(p - 1) * ps + i]]_vars
    /\ [](IsKV /\ isinstance_dict(KVFile)
          => \A ps \in 1..MaxPageLength :
               LET N == Cardinality(DOMAIN KVFile.d) IN
               PagesFrom(KVFile, 1, (N + ps - 1) \div ps, ps) = values(KVFile.d))

\* The second page of two holds the one record that remains of three
C11_Witness ==
    /\ handler = "people" /\ last.op = "get_persons" /\ last.result = "ok"
    /\ Cardinality(DOMAIN people_pkl.d) = 3
    /\ last.written = [page_number |-> 2, page_length |-> 2]
    /\ Len(last.ret.records) = 1

\* C12: over a faces file holding a mapping find_by_group_id(g) succeeds, leaves the
\* file as it was and returns the stored records whose group_id is g, each once,
\* and no other record (none when no record has group g).
C12_FindByGroup ==
    [][(handler = "PickleCRUD" /\ last'.op = "find_by_group_id" /\ isinstance_dict(faces_pkl))
       => LET g == last'.written.group_id
              found == last'.ret.records
              d == faces_pkl.d
          IN /\ last'.result = "ok"
             /\ faces_pkl' = faces_pkl
             /\ \A i \in 1..Len(found) :
                  found[i].group_id = g /\ \E k \in DOMAIN d : d[k] = found[i]
             /\ \A k \in DOMAIN d :
                  d[k].group_id = g => Cardinality({i \in 1..Len(found) : found[i] = d[k]}) = 1
             /\ Len(found) = Cardinality({k \in DOMAIN d : d[k].group_id = g})]_vars

\* One record of the group asked for, next to a record of another group
C12_Witness ==
    /\ handler = "PickleCRUD" /\ last.op = "find_by_group_id" /\ last.result = "ok"
    /\ Len(last.ret.records) = 1
    /\ \E k \in DOMAIN faces_pkl.d :
         faces_pkl.d[k].group_id \in QueryGroupIds \ {last.written.group_id}

\* C13: over a faces file holding a mapping get_all_group_ids succeeds and returns
\* every group_id other than None that some stored record carries, each exactly
\* once, never None, and no id that no record carries; find_by_group_id(g) is then
\* non-empty exactly for the ids g returned.
C13_AllGroupIds ==
    [][(handler = "PickleCRUD" /\ last'.op = "get_all_group_ids" /\ isinstance_dict(faces_pkl))
       => LET ids == last'.ret.records
              d == faces_pkl.d
          IN /\ last'.result = "ok"
             /\ faces_pkl' = faces_pkl
             /\ \A i \in 1..Len(ids) :
                  ids[i] # NoGroup /\ \E k \in DOMAIN d : d[k].group_id = ids[i]
             /\ \A i, j \in 1..Len(ids) : ids[i] = ids[j] => i = j
             /\ \A k \in DOMAIN d :
                  d[k].group_id # NoGroup => \E i \in 1..Len(ids) : ids[i] = d[k].group_id
             /\ \A g \in QueryGroupIds \cup {NoGroup} :
                  (g # NoGroup /\ find_by_group_id(faces_pkl, g).ret.records # <<>>)
                    <=> \E i \in 1..Len(ids) : ids[i] = g]_vars

\* A record without a group next to a grouped one
C13_Witness ==
    /\ handler = "PickleCRUD" /\ last.op = "get_all_group_ids" /\ last.result = "ok"
    /\ Len(last.ret.records) = 1
    /\ \E k \in DOMAIN faces_pkl.d : faces_pkl.d[k].group_id = NoGroup

\* C20: health_check answers healthy over a faces file that is missing (the
\* constructor initializes it to the empty mapping) or holds the empty mapping;
\* it answers 503 with the error as its detail when the path cannot be opened or
\* read_all fails; and it answers healthy only when read_all of the faces file
\* succeeds.
C20_HealthProbe ==
    [][(handler = "PickleCRUD" /\ last'.op = "health_check")
       => LET healthy == last'.result = "ok" /\ last'.ret = [status |-> "healthy"]
              degraded == /\ last'.result = "HTTPException"
                          /\ last'.ret.status_code = 503
          IN /\ faces_pkl \in {Missing, EmptyDict} => healthy /\ faces_pkl' = EmptyDict
             /\ faces_pkl = Unreadable => degraded /\ last'.ret.detail = "PermissionError"
             /\ (faces_pkl' # Unreadable /\ read_all(faces_pkl').result # "ok")
                  => degraded /\ last'.ret.detail = read_all(faces_pkl').result
             /\ healthy => faces_pkl' # Unreadable /\ read_all(faces_pkl').result = "ok"
             /\ healthy \/ degraded]_vars

\* The probe has answered 503 over a path that cannot be opened
C20_Witness ==
    /\ handler = "PickleCRUD" /\ last.op = "health_check"
    /\ faces_pkl = Unreadable
    /\ last.result = "HTTPException" /\ last.ret.status_code = 503

\* A run of a face import: main over the pickle files, import_metadata over DuckDB
FaceImportRun == handler \in {"main", "duck"} /\ last'.op \in {"main", "import_metadata"}

\* The keys of the Face collection of the pipeline in use
FaceKeys ==
    IF handler = "main" THEN DOMAIN faces_pkl.d ELSE {r.face_id : r \in face_data}

\* The face_ids of the records the Face collection holds under key
FaceIdsUnder(key) ==
    IF handler = "main" THEN {faces_pkl.d[k].face_id : k \in DOMAIN faces_pkl.d \cap {key}}
    ELSE {r.face_id : r \in {q \in face_data : q.face_id = key}}

\* A document that parses and lacks face_id
LacksFaceId(doc) == doc # Unparsable /\ "face_id" \notin DOMAIN doc

\* A document that parses and has face_id and all the required fields
Complete(doc) == doc # Unparsable /\ RequiredKeys \subseteq DOMAIN doc

\* A document the face import converts to a record
Converts(doc) == doc # Unparsable /\ convert_ok(doc)

\* C14: in both backends, the import of a folder whose documents are complete but
\* for documents that lack face_id is not stopped by them: it ends without an
\* error, the documents without face_id add no record, and the face_id of every
\* other document is in the Face collection.
C14_MissingFaceIdSkipped ==
    [][(/\ FaceImportRun
        /\ \E i \in DOMAIN last'.written : LacksFaceId(last'.written[i])
        /\ \A i \in DOMAIN last'.written :
             LacksFaceId(last'.written[i]) \/ Complete(last'.written[i]))
       => /\ last'.result = "ok"
          /\ FaceKeys' = FaceKeys \cup {last'.written[i].face_id :
                                          i \in {j \in DOMAIN last'.written :
                                                   Complete(last'.written[j])}}]_vars

\* C15: in both backends, the import of a folder with a document that does not
\* parse or lacks a required field is not aborted, and when it returns every
\* complete document of the folder is in the Face collection under its face_id.
C15_FailuresIsolated ==
    [][(/\ FaceImportRun
        /\ \E i \in DOMAIN last'.written : ~Complete(last'.written[i]))
       => /\ last'.result = "ok"
          /\ \A key \in FaceIds :
               (\E i \in DOMAIN last'.written :
                  Complete(last'.written[i]) /\ last'.written[i].face_id = key)
                 => FaceIdsUnder(key)' = {key}]_vars

\* The last document of a folder that converts and has the face_id key, if there
\* is one
LastOf(json_files, key) ==
    LET S == {i \in DOMAIN json_files :
                Converts(json_files[i]) /\ json_files[i].face_id = key}
    IN IF S = {} THEN None ELSE Some(json_files[Max(S)])

PersonDerivationRun ==
    handler \in {"main", "import_people"} /\ last'.op \in {"main", "populate_persons_table"}

\* The group ids other than None of the imported faces: of the records of the faces
\* file for main, of the documents of the folder that convert for populate_persons_table
ObservedGroups(json_files) ==
    IF handler = "main"
    THEN {faces_pkl.d[k].group_id : k \in DOMAIN faces_pkl.d} \ {NoGroup}
    ELSE {json_files[i].group_id : i \in {j \in DOMAIN json_files : Converts(json_files[j])}}
           \ {NoGroup}

\* C17: a person derivation that starts from an empty Person collection leaves
\* exactly one person per group id other than None of the imported faces, its
\* person_id that group id (its text in the table people), and no person for the
\* faces without a group.
C17_OnePersonPerGroup ==
    [][(/\ PersonDerivationRun
        /\ last'.result = "ok"
        /\ IF handler = "main" THEN people_pkl \in {Missing, EmptyDict} ELSE people = {})
       => \A json_files \in {last'.written} :
            IF handler = "main"
            THEN /\ DOMAIN people_pkl'.d = ObservedGroups(json_files)'
                 /\ \A k \in DOMAIN people_pkl'.d : people_pkl'.d[k].person_id = k
            ELSE /\ {r.id : r \in people'} = {ToString(g) : g \in ObservedGroups(json_files)'}
                 /\ \A r, q \in people' : r.id = q.id => r = q]_vars

\* The face_ids of the documents of a folder that convert and have the group id g
FaceIdsOfGroup(json_files, g) ==
    {json_files[i].face_id :
       i \in {j \in DOMAIN json_files : Converts(json_files[j]) /\ json_files[j].group_id = g}}

\* C18: populate_persons_table over an empty table people leaves, for each group
\* of the folder, a person whose face_ids hold every face_id of the folder's
\* documents of that group, each once, and no face_id of another group or of a
\* document the face import skips (one that does not convert).
C18_PersonListsItsFaces ==
    [][(handler = "import_people" /\ last'.op = "populate_persons_table" /\ people = {})
       => \A g \in QueryGroupIds :
            LET rows == {r \in people' : r.id = ToString(g)}
                expected == FaceIdsOfGroup(last'.written, g)
            IN /\ expected # {} => Cardinality(rows) = 1
               /\ \A r \in rows :
                    LET face_ids == json_loads(r.face_ids) IN
                      /\ {face_ids[i] : i \in DOMAIN face_ids} = expected
                      /\ \A i, j \in DOMAIN face_ids : face_ids[i] = face_ids[j] => i = j]_vars

\* The last component of the directory of the image_path of the faces of group g:
\* of the records of the faces file for main (g a group id), of the documents of
\* the folder that have a face_id for populate_persons_table (g the text of one)
DirectoriesOfGroup(json_files, g) ==
    IF handler = "main"
    THEN {basename(dirname(faces_pkl.d[k].image_path)) :
            k \in {q \in DOMAIN faces_pkl.d : faces_pkl.d[q].group_id = g}}
    ELSE {basename(dirname(json_files[i].image_path)) :
            i \in {j \in DOMAIN json_files :
                     /\ json_files[j] # Unparsable
                     /\ {"face_id", "image_path", "group_id"} \subseteq DOMAIN json_files[j]
                     /\ str(json_files[j].group_id) = g}}

\* C19: in both person derivations, the name of every person derived for a group
\* of the import is the last component of the directory that holds the image of a
\* face of that group.
C19_NameFromDirectory ==
    [][(PersonDerivationRun /\ last'.result = "ok")
       => \A json_files \in {last'.written} :
            IF handler = "main"
            THEN \A g \in ObservedGroups(json_files)' :
                   g \in DOMAIN people_pkl'.d
                     => people_pkl'.d[g].person_name \in DirectoriesOfGroup(json_files, g)'
            ELSE \A r \in people' :
                   DirectoriesOfGroup(json_files, r.id) # {}
                     => r.name \in DirectoriesOfGroup(json_files, r.id)]_vars

\* An update of one of the relational classes with a key that matches no row; of
\* DuckDbGateway, one with an open connection and a field to set
RelationalUpdateAbsent ==
    /\ handler \in {"duck", "persons", "gateway"}
    /\ last'.op = "update" /\ ~last'.had
    /\ handler = "gateway" => conn = "open" /\ last'.result # "ParserException"

LastComplete(json_files, key) ==
    LET S == {i \in DOMAIN json_files :
                Complete(json_files[i]) /\ json_files[i].face_id = key}
    IN IF S = {} THEN None ELSE Some(json_files[Max(S)])

\* C23: the import of main stores every complete document of the folder, whatever
\* its image_path holds: after it the faces file has, under the document's
\* face_id, the image_path and face_path of the last complete document with that
\* face_id.
C23_PathsAreOpaque ==
    [][(handler = "main" /\ last'.op = "main")
       => \A key \in FaceIds :
            LastComplete(last'.written, key) # None
              => /\ last'.result = "ok"
                 /\ key \in DOMAIN faces_pkl'.d
                 /\ faces_pkl'.d[key].image_path = LastComplete(last'.written, key).v.image_path
                 /\ faces_pkl'.d[key].face_path = LastComplete(last'.written, key).v.face_path]_vars

\* C25: over a pickle file holding a mapping, a create, update or delete of key K
\* that succeeds changes the entry of K only: read of every other key returns
\* what it returned before, and the keys are those before plus K, K not among
\* them (create), the same (update), or those before less K (delete).
C25_MutationFrame ==
    [][(/\ IsKV /\ last'.op \in {"create", "update", "delete"}
        /\ last'.result = "ok" /\ isinstance_dict(KVFile))
       => LET K == last'.key
              before == DOMAIN KVFile.d
              after == DOMAIN KVFile'.d
          IN /\ isinstance_dict(KVFile')
             /\ \A other \in (before \cup after) \ {K} :
                  /\ KVRead(KVFile', other).result = KVRead(KVFile, other).result
                  /\ KVRead(KVFile', other).ret = KVRead(KVFile, other).ret
             /\ last'.op = "create" => K \notin before /\ after = before \cup {K}
             /\ last'.op = "update" => K \in before /\ after = before
             /\ last'.op = "delete" => K \in before /\ after = before \ {K}]_vars

\* A delete has succeeded and has left another entry in the file
C25_Witness ==
    /\ IsKV /\ last.op = "delete" /\ last.result = "ok"
    /\ isinstance_dict(KVFile) /\ DOMAIN KVFile.d # {}

\* C26: over a people file holding a mapping, create(name) succeeds with the key 0
\* on an empty mapping and else the largest key plus one; the key is not in the
\* file before, every entry of before is kept as it was, and the record returned
\* has that key and the name given and is what read of the key then returns.
C26_NextKeyIsFresh ==
    /\ [](handler = "people" /\ isinstance_dict(people_pkl)
            => \A name \in PersonNames :
                 LET out == people_create(people_pkl, name)
                     before == DOMAIN people_pkl.d
                     K == IF before = {} THEN 0 ELSE Max(before) + 1
                 IN /\ out.result = "ok"
                    /\ out.ret = PersonData(K, name)
                    /\ K \notin before
                    /\ DOMAIN out.store.d = before \cup {K}
                    /\ \A k \in before : out.store.d[k] = people_pkl.d[k]
                    /\ people_read(out.store, K) = Return(out.ret, out.store))
    /\ [][(handler = "people" /\ last'.op = "create" /\ isinstance_dict(people_pkl))
          => /\ last'.result = "ok" /\ ~last'.had
             /\ last'.key = IF DOMAIN people_pkl.d = {} THEN 0 ELSE Max(DOMAIN people_pkl.d) + 1
             /\ last'.ret.person_id = last'.key
             /\ \E name \in PersonNames : people_pkl' = people_create(people_pkl, name).store]_vars

\* A person was created after the person with the key 0 was deleted
C26_Witness ==
    /\ handler = "people" /\ last.op = "create" /\ last.result = "ok"
    /\ last.key = 2 /\ DOMAIN people_pkl.d = {1, 2}

\* Thread t ends a call of op with a write of the file in this step
Writes(t, op) ==
    /\ calls[t].op = op /\ calls[t].pc = "read"
    /\ calls'[t].pc = "done" /\ calls'[t].result = "ok"

\* Both threads have returned from a successful call of op
BothReturned(op) ==
    \A t \in Threads : calls[t].op = op /\ calls[t].pc = "done" /\ calls[t].result = "ok"

\* C24: a create is a read of the whole file and, later, a write of the whole file:
\* the write leaves the file as the data the call read plus its own record, whatever
\* the file held by then, so of two concurrent creates for different keys that both
\* succeed the file can end with one record only (the witness).
C24_LastWriterWins ==
    [][\A t \in Threads :
         (handler = "PickleCRUD" /\ Writes(t, "create")) =>
           /\ ~Contains(calls[t].data, calls[t].key)
           /\ faces_pkl' = Dict(SetItem(calls[t].data.d, calls[t].key, calls[t].value))]_vars

C24_Witness ==
    /\ handler = "PickleCRUD" /\ BothReturned("create")
    /\ calls[1].key # calls[2].key
    /\ Cardinality(DOMAIN faces_pkl.d \cap {calls[1].key, calls[2].key}) = 1

\* C27: when two concurrent creates of PersonDataHandler have both returned, the
\* two person_ids returned are distinct and both records are in the collection.
C27_PersonIdsUnique ==
    (handler = "people" /\ BothReturned("people_create")) =>
      /\ calls[1].ret.person_id # calls[2].ret.person_id
      /\ \A t \in Threads :
           /\ calls[t].ret.person_id \in DOMAIN people_pkl.d
           /\ people_pkl.d[calls[t].ret.person_id] = calls[t].ret

\* C30: the final write of import_metadata leaves every key that is not the face_id
\* of a converted document as the file holds it at that moment: present with the
\* same record, or absent; also when another call wrote the file after the import
\* read it.
C30_ImportFrame ==
    [][\A t \in Threads :
         (handler = "PickleCRUD" /\ Writes(t, "import_metadata")) =>
           \A key \in FaceIds \ ImportedKeys(calls[t].value.json_files) :
             /\ key \in DOMAIN faces_pkl'.d <=> key \in DOMAIN faces_pkl.d
             /\ key \in DOMAIN faces_pkl.d => faces_pkl'.d[key] = faces_pkl.d[key]]_vars

\* A CRUD call of DuckDbGateway
GatewayCRUD ==
    /\ handler = "gateway"
    /\ last'.op \in {"create", "read", "read_all", "update", "delete"}

\* C28 as stated: a CRUD call made while the connection is not open, before
\* __enter__ or after __exit__, raises RuntimeError and changes no data.
C28_RejectedByConnectionCheck ==
    [][(GatewayCRUD /\ conn # "open") =>
         last'.result = "RuntimeError" /\ persons' = persons]_vars

\* C28: the connection is open from __enter__ to __exit__; a CRUD call reaches the
\* table only while it is open. Before __enter__ the connection check raises
\* RuntimeError; after __exit__ the connection is closed but still set, the check
\* passes and the closed connection raises ConnectionException. Neither changes
\* the table.
C28_ConnectionLifecycle ==
    [][/\ (handler = "gateway" /\ last'.op = "init") => conn' = "None"
       /\ (handler = "gateway" /\ last'.op = "enter") => conn' = "open"
       /\ (handler = "gateway" /\ last'.op = "exit") =>
            conn' = IF conn = "None" THEN "None" ELSE "closed"
       /\ GatewayCRUD =>
            /\ conn' = conn
            /\ conn = "None" => last'.result = "RuntimeError" /\ persons' = persons
            /\ conn = "closed" =>
                 last'.result = "ConnectionException" /\ persons' = persons
            /\ conn = "open" => last'.result \notin {"RuntimeError", "ConnectionException"}
            /\ persons' # persons => conn = "open"]_vars

C28_Witness ==
    /\ handler = "gateway" /\ last.op = "delete" /\ conn = "closed"
    /\ last.result = "ConnectionException" /\ last.had /\ persons # <<>>

\* A document the relational import converts to a record
DuckConverts(doc) ==
    /\ duck_load_json_ok(doc)
    /\ get_face_id(doc) # ""
    /\ duck_convert_ok(doc)

\* The rows of the table under a face_id
RowsUnder(rows, face_id) == {r \in rows : r.face_id = face_id}

\* C29: the relational import writes a row for a document only if the document
\* converts: the rows under the face_id of a document that does not convert, and
\* that no converting document of the folder shares, are after the run what they
\* were before it, also when the run ends in exit().
C29_RowOnlyIfConverts ==
    [][(handler = "duck" /\ last'.op = "import_metadata") =>
         \A json_files \in {last'.written} :
           \A i \in DOMAIN json_files :
             (/\ json_files[i] # Unparsable
              /\ "face_id" \in DOMAIN json_files[i]
              /\ ~DuckConverts(json_files[i])
              /\ \A j \in DOMAIN json_files :
                   DuckConverts(json_files[j]) =>
                     get_face_id(json_files[j]) # json_files[i].face_id)
             => RowsUnder(face_data', json_files[i].face_id)
                  = RowsUnder(face_data, json_files[i].face_id)]_vars

=============================================================================
